---------------------------- MODULE Spec2Model ----------------------------
(***************************************************************************)
(* Plugin handle lifecycle of logos-module (ModuleLib).                    *)
(*                                                                         *)
(* ModuleHandle (src/src/module_loader.cpp) and LogosModule                *)
(* (src/src/logos_module.cpp) carry the same five fields and the same      *)
(* lifecycle code line for line; the model below is translated from        *)
(* module_loader.cpp and applies to both.                                  *)
(*                                                                         *)
(* A handle object lives in one of NumHandles storage slots.  A            *)
(* QPluginLoader allocated with `new` is a loader id 1..MaxLoaders; the    *)
(* model counts how often each loader is unloaded and deleted.             *)
(***************************************************************************)
EXTENDS Integers, Sequences, FiniteSets, TLC

\* ------------------------------------------------------------------ bounds
NumHandles == 2
MaxLoaders == 2
\* unload/delete counters saturate here; the code never gets past 1
MaxCount == 2

Handles == 1..NumHandles
Loaders == 1..MaxLoaders
\* QPluginLoader* m_loader = nullptr
NullLoader == 0

Min(a, b) == IF a < b THEN a ELSE b

\* ------------------------------------------------------- object pointers
\* QObject* values: nullptr, the root object of loader l, an object owned
\* by the caller, an object of the static registration table.
NullObj == <<"null", 0>>
DynObj(l) == <<"dyn", l>>
ExtObj == <<"ext", 1>>
StaticObj(i) == <<"static", i>>

\* ------------------------------------------------------------ JSON values
\* A QJsonValue: kind, string payload, array payload (of scalar values).
JStr(s) == [k |-> "str", s |-> s, a |-> <<>>]
JNum == [k |-> "num", s |-> "", a |-> <<>>]
JArr(a) == [k |-> "arr", s |-> "", a |-> a]
JUndefined == [k |-> "undefined", s |-> "", a |-> <<>>]

\* QJsonObject: a function from keys to values; the empty object
EmptyObj == [key \in {} |-> JUndefined]
\* QJsonObject::isEmpty
isEmpty(obj) == DOMAIN obj = {}
\* QJsonObject::value(key): Undefined when the key is absent
value(obj, key) == IF key \in DOMAIN obj THEN obj[key] ELSE JUndefined
\* QJsonValue::toString(): the string, or a null QString for any other kind
toString(v) == IF v.k = "str" THEN v.s ELSE ""
\* QJsonValue::toArray(): the array, or an empty array for any other kind
toArray(v) == IF v.k = "arr" THEN v.a ELSE <<>>

\* A top-level value of the plugin descriptor: an object or something else
TObj(o) == [k |-> "obj", o |-> o]
TStr == [k |-> "str", o |-> EmptyObj]
TUndefined == [k |-> "undefined", o |-> EmptyObj]
EmptyTop == [key \in {} |-> TUndefined]
topValue(json, key) == IF key \in DOMAIN json THEN json[key] ELSE TUndefined
\* QJsonValue::toObject(): the object, or an empty object for any other kind
toObject(v) == IF v.k = "obj" THEN v.o ELSE EmptyObj

\* --------------------------------------------------------- ModuleMetadata
\* struct ModuleMetadata, default constructed
DefaultMetadata ==
    [name |-> "", version |-> "", description |-> "", author |-> "",
     type |-> "", dependencies |-> <<>>, rawMetadata |-> EmptyObj]

\* ModuleMetadata::isValid
metadataIsValid(m) == m.name # ""

RECURSIVE appendDeps_unique(_, _)
\* the loop with a `!result.dependencies.contains(depName)` test added
appendDeps_unique(depsArray, acc) ==
    IF depsArray = <<>> THEN acc
    ELSE LET depName == toString(Head(depsArray))
         IN appendDeps_unique(Tail(depsArray),
               IF depName # "" /\ \A i \in 1..Len(acc) : acc[i] # depName
               THEN Append(acc, depName) ELSE acc)

RECURSIVE appendDeps(_, _)
\* the loop of fromCustomMetadata over depsArray
appendDeps(depsArray, acc) ==
    IF depsArray = <<>> THEN acc
    ELSE LET depName == toString(Head(depsArray))
         IN appendDeps(Tail(depsArray),
                       IF depName # "" THEN Append(acc, depName) ELSE acc)

\* the typed keys of a MetaData section
TypedKeys == {"name", "version", "description", "author", "type", "dependencies"}

\* fromCustomMetadata() that keeps only the unknown keys in rawMetadata
fromCustomMetadata_rawUnknownOnly(customMetadata) ==
    [name |-> toString(value(customMetadata, "name")),
     version |-> toString(value(customMetadata, "version")),
     description |-> toString(value(customMetadata, "description")),
     author |-> toString(value(customMetadata, "author")),
     type |-> toString(value(customMetadata, "type")),
     dependencies |-> appendDeps(toArray(value(customMetadata, "dependencies")), <<>>),
     rawMetadata |-> [key \in DOMAIN customMetadata \ TypedKeys |->
                         customMetadata[key]]]

\* ModuleMetadata::fromCustomMetadata
fromCustomMetadata(customMetadata) ==
    [name |-> toString(value(customMetadata, "name")),
     version |-> toString(value(customMetadata, "version")),
     description |-> toString(value(customMetadata, "description")),
     author |-> toString(value(customMetadata, "author")),
     type |-> toString(value(customMetadata, "type")),
     dependencies |-> appendDeps(toArray(value(customMetadata, "dependencies")), <<>>),
     rawMetadata |-> customMetadata]

\* std::optional<ModuleMetadata>
Nothing == [some |-> FALSE, v |-> DefaultMetadata]
Some(m) == [some |-> TRUE, v |-> m]

\* fromJson() without the `if (!result.isValid())` test
fromJson_noValidation(json) ==
    LET customMetadata == toObject(topValue(json, "MetaData"))
    IN IF isEmpty(customMetadata) THEN Nothing
       ELSE Some(fromCustomMetadata(customMetadata))

\* fromJson() that also wants a version
fromJson_needsVersion(json) ==
    LET customMetadata == toObject(topValue(json, "MetaData"))
    IN IF isEmpty(customMetadata) THEN Nothing
       ELSE LET result == fromCustomMetadata(customMetadata)
            IN IF ~metadataIsValid(result) \/ result.version = ""
               THEN Nothing ELSE Some(result)

\* ModuleMetadata::fromJson
fromJson(json) ==
    LET customMetadata == toObject(topValue(json, "MetaData"))
    IN IF isEmpty(customMetadata) THEN Nothing
       ELSE LET result == fromCustomMetadata(customMetadata)
            IN IF ~metadataIsValid(result) THEN Nothing ELSE Some(result)

\* ---------------------------------------------------------- plugin files
\* What QPluginLoader finds at a path: the embedded descriptor
\* (metaData()), whether instance() yields an object, and errorString().
GoodMeta ==
    [key \in {"name", "version", "dependencies", "extra"} |->
        CASE key = "name" -> JStr("package_manager")
          [] key = "version" -> JStr("1.0.0")
          [] key = "dependencies" -> JArr(<<JStr("a"), JStr(""), JStr("b")>>)
          [] OTHER -> JNum]
NoNameMeta == [key \in {"version"} |-> JStr("1.0.0")]
EmptyNameMeta ==
    [key \in {"name", "version"} |->
        IF key = "name" THEN JStr("") ELSE JStr("1.0.0")]

AllPaths ==
    {"good.so", "noname.so", "emptyname.so", "empty.so", "plain.so",
     "broken.so", "missing.so"}
\* the plugin files the lifecycle specification loads
Paths == {"good.so", "broken.so"}

Binary(path) ==
    CASE path = "good.so" ->
            [metaData |-> [key \in {"IID", "MetaData"} |->
                              IF key = "IID" THEN TStr ELSE TObj(GoodMeta)],
             loads |-> TRUE, errorString |-> "Unknown error"]
      [] path = "noname.so" ->
            [metaData |-> [key \in {"IID", "MetaData"} |->
                              IF key = "IID" THEN TStr ELSE TObj(NoNameMeta)],
             loads |-> TRUE, errorString |-> "Unknown error"]
      [] path = "emptyname.so" ->
            [metaData |-> [key \in {"IID", "MetaData"} |->
                              IF key = "IID" THEN TStr ELSE TObj(EmptyNameMeta)],
             loads |-> TRUE, errorString |-> "Unknown error"]
      [] path = "empty.so" ->
            [metaData |-> [key \in {"IID", "MetaData"} |->
                              IF key = "IID" THEN TStr ELSE TObj(EmptyObj)],
             loads |-> TRUE, errorString |-> "Unknown error"]
      [] path = "plain.so" ->
            [metaData |-> [key \in {"IID"} |-> TStr],
             loads |-> TRUE, errorString |-> "Unknown error"]
      [] path = "broken.so" ->
            [metaData |-> [key \in {"IID", "MetaData"} |->
                              IF key = "IID" THEN TStr ELSE TObj(GoodMeta)],
             loads |-> FALSE, errorString |-> "Cannot load library"]
      [] OTHER ->
            [metaData |-> EmptyTop,
             loads |-> FALSE, errorString |-> "The shared library was not found."]

\* ModuleMetadata::fromPath
fromPath(pluginPath) ==
    LET metadata == Binary(pluginPath).metaData
    IN IF isEmpty(metadata) THEN Nothing ELSE fromJson(metadata)

\* Metadata a caller may hand to wrapExisting
CallerMetadata == {[DefaultMetadata EXCEPT !.name = "wrapped"]}

\* QPluginLoader::staticInstances(): the link-time registration table
StaticTable == <<NullObj, StaticObj(1)>>

\* ------------------------------------------------- descriptors to parse
\* longest dependencies array tried
MaxDeps == 3

\* entries of a dependencies array: names, an empty string, a number
DepEntries == {JStr("a"), JStr(""), JStr("b"), JNum}

RECURSIVE arraysUpTo(_)
\* all arrays of at most n entries
arraysUpTo(n) ==
    IF n = 0 THEN {<<>>}
    ELSE LET shorter == arraysUpTo(n - 1)
         IN shorter \cup
            {Append(a, e) : a \in {x \in shorter : Len(x) = n - 1},
                            e \in DepEntries}

\* the object with the given values, a key being absent where the value
\* is Undefined
object(name, version, dependencies, customField) ==
    LET choice == [key \in {"name", "version", "dependencies", "customField"} |->
                      CASE key = "name" -> name
                        [] key = "version" -> version
                        [] key = "dependencies" -> dependencies
                        [] OTHER -> customField]
    IN [key \in {k \in DOMAIN choice : choice[k] # JUndefined} |-> choice[key]]

\* MetaData sections: every key absent, a string or something else
CustomMetadatas ==
    {object(n, v, d, c) :
        n \in {JUndefined, JStr(""), JStr("test_plugin"), JNum},
        v \in {JUndefined, JStr("1.0.0"), JNum},
        d \in {JUndefined, JStr("a")} \cup {JArr(a) : a \in arraysUpTo(MaxDeps)},
        c \in {JUndefined, JStr("customValue"), JNum}}

\* raw descriptors: a MetaData section, or none, or one that is no object
Descriptors ==
    {[key \in {"MetaData"} |-> TObj(c)] : c \in CustomMetadatas} \cup
    {EmptyTop, [key \in {"IID"} |-> TStr], [key \in {"MetaData"} |-> TStr]}

\* ------------------------------------------------------------ reflection
\* What QMetaObject reports.  A meta-object is the chain of classes from
\* QObject down to the class of the object, each with the methods it
\* declares; a QMetaMethod is the record of one of them.
Method(name, methodSignature, typeName, methodType, parameterTypes, parameterNames) ==
    [name |-> name, methodSignature |-> methodSignature, typeName |-> typeName,
     methodType |-> methodType, parameterTypes |-> parameterTypes,
     parameterNames |-> parameterNames]

Class(className, methods) == [className |-> className, methods |-> methods]

\* QObject: a signal and a slot of its own
QObjectClass ==
    Class("QObject",
          <<Method("destroyed", "destroyed(QObject*)", "void", "Signal",
                   <<"QObject*">>, <<"">>),
            Method("deleteLater", "deleteLater()", "void", "Slot", <<>>, <<>>)>>)

\* a plugin base class between QObject and the plugin class
PluginBaseClass ==
    Class("PluginBase",
          <<Method("version", "version()", "QString", "Method", <<>>, <<>>)>>)

\* methods a plugin class may declare: those of MockPlugin, a signal with
\* an unnamed parameter, and one named like a method of QObject
MethodPool ==
    {Method("testMethod", "testMethod(int)", "QString", "Method",
            <<"int">>, <<"value">>),
     Method("noReturnMethod", "noReturnMethod()", "void", "Method", <<>>, <<>>),
     Method("methodWithMultipleParams", "methodWithMultipleParams(QString,int,bool)",
            "bool", "Method", <<"QString", "int", "bool">>, <<"name", "", "flag">>),
     Method("slotMethod", "slotMethod()", "void", "Slot", <<>>, <<>>),
     Method("changed", "changed(QString)", "void", "Signal", <<"QString">>, <<"">>),
     Method("deleteLater", "deleteLater(int)", "void", "Method", <<"int">>, <<"msec">>)}

\* most methods a plugin class declares
MaxMethods == 2

RECURSIVE methodsUpTo(_)
\* all sequences of at most n methods of the pool
methodsUpTo(n) ==
    IF n = 0 THEN {<<>>}
    ELSE LET shorter == methodsUpTo(n - 1)
         IN shorter \cup
            {Append(ms, m) : ms \in {x \in shorter : Len(x) = n - 1},
                             m \in MethodPool}

\* a live QObject: its meta-object
Obj(metaObject) == <<"obj", metaObject>>

\* the plugin objects inspected: a MockPlugin deriving from QObject
\* directly or through the plugin base class
Plugins ==
    {Obj(<<QObjectClass>> \o mid \o <<Class("MockPlugin", ms)>>) :
        mid \in {<<>>, <<PluginBaseClass>>}, ms \in methodsUpTo(MaxMethods)}

\* plugin->metaObject()
metaObject(plugin) == plugin[2]

\* QMetaObject::className
className(mo) == mo[Len(mo)].className

RECURSIVE methodTable(_)
\* the methods of a meta-object in index order, inherited ones first, each
\* with the meta-object of the class that declares it
methodTable(mo) ==
    IF mo = <<>> THEN <<>>
    ELSE LET declared == mo[Len(mo)].methods
         IN methodTable(SubSeq(mo, 1, Len(mo) - 1)) \o
            [i \in 1..Len(declared) |->
                [m |-> declared[i], enclosingMetaObject |-> mo]]

\* QMetaObject::methodCount
methodCount(mo) == Len(methodTable(mo))

\* QMetaObject::method(i), i counted from 0
method(mo, i) == methodTable(mo)[i + 1]

\* QString::number for the parameter indices that occur
number(p) == <<"0", "1", "2", "3", "4", "5">>[p + 1]

RECURSIVE parameterLoop_oneBased(_, _, _)
\* the parameter loop naming an unnamed parameter "param" + (p + 1)
parameterLoop_oneBased(m, p, parameters) ==
    IF ~(p < Len(m.parameterTypes)) THEN parameters
    ELSE LET paramNames == m.parameterNames
             param == [type |-> m.parameterTypes[p + 1],
                       name |-> IF p < Len(paramNames) /\ paramNames[p + 1] # ""
                                THEN paramNames[p + 1]
                                ELSE "param" \o number(p + 1)]
         IN parameterLoop_oneBased(m, p + 1, Append(parameters, param))

RECURSIVE parameterLoop(_, _, _)
\* the loop of getMethods over the parameters of a method
parameterLoop(m, p, parameters) ==
    IF ~(p < Len(m.parameterTypes)) THEN parameters
    ELSE LET paramNames == m.parameterNames
             param == [type |-> m.parameterTypes[p + 1],
                       name |-> IF p < Len(paramNames) /\ paramNames[p + 1] # ""
                                THEN paramNames[p + 1]
                                ELSE "param" \o number(p)]
         IN parameterLoop(m, p + 1, Append(parameters, param))

\* MethodInfo with isInvokable set for every valid QMetaMethod
methodInfo_allInvokable(m) ==
    [signature |-> m.methodSignature,
     name |-> m.name,
     returnType |-> m.typeName,
     isInvokable |-> TRUE,
     parameters |-> IF Len(m.parameterTypes) > 0
                    THEN parameterLoop(m, 0, <<>>) ELSE <<>>]

\* MethodInfo with a void return type name replaced by an empty string
methodInfo_normalizesVoid(m) ==
    [signature |-> m.methodSignature,
     name |-> m.name,
     returnType |-> IF m.typeName = "void" THEN "" ELSE m.typeName,
     isInvokable |-> m.methodType = "Method" \/ m.methodType = "Slot",
     parameters |-> IF Len(m.parameterTypes) > 0
                    THEN parameterLoop(m, 0, <<>>) ELSE <<>>]

\* MethodInfo of one QMetaMethod
methodInfo(m) ==
    [signature |-> m.methodSignature,
     name |-> m.name,
     returnType |-> m.typeName,
     isInvokable |-> m.methodType = "Method" \/ m.methodType = "Slot",
     parameters |-> IF Len(m.parameterTypes) > 0
                    THEN parameterLoop(m, 0, <<>>) ELSE <<>>]

RECURSIVE methodLoop_byName(_, _, _, _)
\* the loop with the test replaced by a name-based one: skip what is named
\* like a method of QObject
methodLoop_byName(mo, excludeBaseClass, i, methods) ==
    IF ~(i < methodCount(mo)) THEN methods
    ELSE LET entry == method(mo, i)
         IN IF excludeBaseClass /\
               \E k \in 1..Len(QObjectClass.methods) :
                  QObjectClass.methods[k].name = entry.m.name
            THEN methodLoop_byName(mo, excludeBaseClass, i + 1, methods)
            ELSE methodLoop_byName(mo, excludeBaseClass, i + 1,
                                   Append(methods, methodInfo(entry.m)))

RECURSIVE methodLoop_keepsAll(_, _, _, _)
\* the loop without the excludeBaseClass test
methodLoop_keepsAll(mo, excludeBaseClass, i, methods) ==
    IF ~(i < methodCount(mo)) THEN methods
    ELSE methodLoop_keepsAll(mo, excludeBaseClass, i + 1,
                             Append(methods, methodInfo(method(mo, i).m)))

RECURSIVE methodLoop(_, _, _, _)
\* the loop of getMethods over the method indices
methodLoop(mo, excludeBaseClass, i, methods) ==
    IF ~(i < methodCount(mo)) THEN methods
    ELSE LET entry == method(mo, i)
         IN IF excludeBaseClass /\ entry.enclosingMetaObject # mo
            THEN methodLoop(mo, excludeBaseClass, i + 1, methods)
            ELSE methodLoop(mo, excludeBaseClass, i + 1,
                            Append(methods, methodInfo(entry.m)))

\* ModuleIntrospection::getMethods
getMethods(plugin, excludeBaseClass) ==
    IF plugin = NullObj THEN <<>>
    ELSE methodLoop(metaObject(plugin), excludeBaseClass, 0, <<>>)

JBool(b) == [k |-> "bool", s |-> IF b THEN "true" ELSE "false", a |-> <<>>]

\* ParameterInfo::toJson
ParameterInfo_toJson(param) ==
    [key \in {"name", "type"} |->
        IF key = "name" THEN JStr(param.name) ELSE JStr(param.type)]

\* toJson() without the `if (!parameters.empty())` test
MethodInfo_toJson_alwaysParameters(info) ==
    [key \in {"name", "signature", "returnType", "isInvokable", "parameters"} |->
        CASE key = "name" -> JStr(info.name)
          [] key = "signature" -> JStr(info.signature)
          [] key = "returnType" -> JStr(info.returnType)
          [] key = "isInvokable" -> JBool(info.isInvokable)
          [] OTHER -> JArr([p \in 1..Len(info.parameters) |->
                               ParameterInfo_toJson(info.parameters[p])])]

\* MethodInfo::toJson
MethodInfo_toJson(info) ==
    [key \in {"name", "signature", "returnType", "isInvokable"} \cup
              (IF info.parameters # <<>> THEN {"parameters"} ELSE {}) |->
        CASE key = "name" -> JStr(info.name)
          [] key = "signature" -> JStr(info.signature)
          [] key = "returnType" -> JStr(info.returnType)
          [] key = "isInvokable" -> JBool(info.isInvokable)
          [] OTHER -> JArr([p \in 1..Len(info.parameters) |->
                               ParameterInfo_toJson(info.parameters[p])])]

\* ModuleIntrospection::getMethodsAsJson
getMethodsAsJson(plugin, excludeBaseClass) ==
    LET methods == getMethods(plugin, excludeBaseClass)
    IN [i \in 1..Len(methods) |-> MethodInfo_toJson(methods[i])]

\* getClassName() that names the static type for a null pointer
getClassName_staticType(plugin) ==
    IF plugin = NullObj THEN "QObject" ELSE className(metaObject(plugin))

\* ModuleIntrospection::getClassName
getClassName(plugin) ==
    IF plugin = NullObj THEN "" ELSE className(metaObject(plugin))

\* hasMethod() that searches getMethods(plugin, true)
hasMethod_ownOnly(plugin, methodName) ==
    IF plugin = NullObj THEN FALSE
    ELSE LET methods == getMethods(plugin, TRUE)
         IN \E i \in 1..Len(methods) : methods[i].name = methodName

\* ModuleIntrospection::hasMethod
hasMethod(plugin, methodName) ==
    IF plugin = NullObj THEN FALSE
    ELSE LET methods == getMethods(plugin, FALSE)
         IN \E i \in 1..Len(methods) : methods[i].name = methodName

\* names asked of hasMethod
MethodNames == {"", "deleteLater", "testMethod", "nonExistentMethod"}

\* bounds of the registration tables tried: objects and table length
NumStatic == 2
MaxStatic == 3

RECURSIVE tablesUpTo(_)
\* all sequences of at most n entries, each nullptr or a registered object
tablesUpTo(n) ==
    IF n = 0 THEN {<<>>}
    ELSE LET shorter == tablesUpTo(n - 1)
         IN shorter \cup
            {Append(t, o) : t \in {x \in shorter : Len(x) = n - 1},
                            o \in {NullObj} \cup {StaticObj(i) : i \in 1..NumStatic}}

\* registration tables: an object is registered at most once, and the
\* handles of its objects fit the storage
StaticTables ==
    {t \in tablesUpTo(MaxStatic) :
        /\ \A i \in 1..Len(t), j \in 1..Len(t) :
              (i # j /\ t[i] # NullObj) => t[i] # t[j]
        /\ Cardinality({i \in 1..Len(t) : t[i] # NullObj}) <= NumHandles}

\* ------------------------------------------------------------------ state
VARIABLES
    handles,        \* slot -> the five fields of the ModuleHandle in it
    life,           \* slot -> "none" | "alive"
    loaders,        \* loader id -> state and unload/delete counts
    staticPlugins,  \* the static registration table of this process
    released,       \* slot -> "no" | "released" | "reassigned" (history)
    leaked,         \* what release() handed to callers (history)
    unloadedBy,     \* loader id -> `released` of the handle that unloaded it
    lastOp,         \* the operation that produced this state
    arg,            \* the argument of a call of a static function
    ret             \* what that call returned

vars == <<handles, life, loaders, staticPlugins, released, leaked,
          unloadedBy, lastOp, arg, ret>>

\* no static function has been called
NoCall == [f |-> "none"]

\* class ModuleHandle, default member initializers
DefaultHandle ==
    [m_loader |-> NullLoader, m_instance |-> NullObj,
     m_metadata |-> DefaultMetadata, m_errorString |-> "",
     m_isStatic |-> FALSE]

\* a QPluginLoader not yet allocated; ok: instance() gave an object
FreshLoader == [state |-> "unborn", unloads |-> 0, deletes |-> 0, ok |-> FALSE]

NoOp ==
    [op |-> "init", h |-> 0, src |-> 0, path |-> "",
     obj |-> NullObj, metadata |-> DefaultMetadata]

Init ==
    /\ handles = [h \in Handles |-> DefaultHandle]
    /\ life = [h \in Handles |-> "none"]
    /\ loaders = [l \in Loaders |-> FreshLoader]
    /\ staticPlugins = StaticTable
    /\ released = [h \in Handles |-> "no"]
    /\ leaked = {}
    /\ unloadedBy = [l \in Loaders |-> ""]
    /\ lastOp = NoOp
    /\ arg = NoCall
    /\ ret = NoCall

\* ------------------------------------------------------- handle methods
\* ModuleHandle::isValid
isValid(hr) == hr.m_instance # NullObj

bump(n) == Min(n + 1, MaxCount)

\* m_loader->unload(); delete m_loader;
unloadAndDelete(L, l) ==
    [L EXCEPT ![l] = [@ EXCEPT !.state = "deleted",
                               !.unloads = bump(@),
                               !.deletes = bump(@)]]

\* delete m_loader;  (~QPluginLoader does not unload the library)
deleteLoader(L, l) ==
    [L EXCEPT ![l] = [@ EXCEPT !.state = "deleted", !.deletes = bump(@)]]

\* unload() that forgets `m_loader = nullptr`
unload_keepsLoader(hr, L) ==
    [hr |-> [hr EXCEPT !.m_instance = NullObj],
     L |-> IF hr.m_loader # NullLoader /\ ~hr.m_isStatic
           THEN unloadAndDelete(L, hr.m_loader) ELSE L]

\* unload() that forgets `m_instance = nullptr`
unload_keepsInstance(hr, L) ==
    [hr |-> [hr EXCEPT !.m_loader = NullLoader],
     L |-> IF hr.m_loader # NullLoader /\ ~hr.m_isStatic
           THEN unloadAndDelete(L, hr.m_loader) ELSE L]

\* unload() that resets the whole handle (`*this = ModuleHandle()`)
unload_resetsHandle(hr, L) ==
    [hr |-> DefaultHandle,
     L |-> IF hr.m_loader # NullLoader /\ ~hr.m_isStatic
           THEN unloadAndDelete(L, hr.m_loader) ELSE L]

\* unload() that deletes the loader without `m_loader->unload()`
unload_deleteOnly(hr, L) ==
    [hr |-> [hr EXCEPT !.m_loader = NullLoader, !.m_instance = NullObj],
     L |-> IF hr.m_loader # NullLoader /\ ~hr.m_isStatic
           THEN deleteLoader(L, hr.m_loader) ELSE L]

\* ModuleHandle::unload: the handle and the loaders after the call
unload(hr, L) ==
    [hr |-> [hr EXCEPT !.m_loader = NullLoader, !.m_instance = NullObj],
     L |-> IF hr.m_loader # NullLoader /\ ~hr.m_isStatic
           THEN unloadAndDelete(L, hr.m_loader) ELSE L]

\* release() that forgets `m_isStatic = true`
release_notStatic(hr) ==
    [hr |-> [hr EXCEPT !.m_loader = NullLoader, !.m_instance = NullObj],
     ret |-> hr.m_instance]

\* release() that only clears m_instance
release_stillOwns(hr) ==
    [hr |-> [hr EXCEPT !.m_instance = NullObj],
     ret |-> hr.m_instance]

\* release() that forgets `m_loader = nullptr`
release_keepsLoader(hr) ==
    [hr |-> [hr EXCEPT !.m_instance = NullObj, !.m_isStatic = TRUE],
     ret |-> hr.m_instance]

\* ModuleHandle::release: the handle after the call and the returned pointer
release(hr) ==
    [hr |-> [hr EXCEPT !.m_loader = NullLoader, !.m_instance = NullObj,
                       !.m_isStatic = TRUE],
     ret |-> hr.m_instance]

\* a move that forgets `other.m_loader = nullptr`
movedFrom_keepsLoader(other, residueMetadata, residueError) ==
    [other EXCEPT !.m_instance = NullObj,
                  !.m_metadata = residueMetadata,
                  !.m_errorString = residueError,
                  !.m_isStatic = FALSE]

\* a move that forgets `other.m_isStatic = false`
movedFrom_keepsStatic(other, residueMetadata, residueError) ==
    [other EXCEPT !.m_loader = NullLoader,
                  !.m_instance = NullObj,
                  !.m_metadata = residueMetadata,
                  !.m_errorString = residueError]

\* `other` after ModuleHandle(ModuleHandle&&) / operator=(ModuleHandle&&):
\* pointers and flag reset, metadata and error string left as std::move
\* leaves them
movedFrom(other, residueMetadata, residueError) ==
    [other EXCEPT !.m_loader = NullLoader,
                  !.m_instance = NullObj,
                  !.m_metadata = residueMetadata,
                  !.m_errorString = residueError,
                  !.m_isStatic = FALSE]

\* the destination of a move: all five fields of `other`
adopt(other) ==
    [m_loader |-> other.m_loader, m_instance |-> other.m_instance,
     m_metadata |-> other.m_metadata, m_errorString |-> other.m_errorString,
     m_isStatic |-> other.m_isStatic]

\* wrapExisting() without the `if (!pluginObject)` branch
wrapExisting_noNullCheck(pluginObject, metadata) ==
    [DefaultHandle EXCEPT !.m_instance = pluginObject,
                          !.m_metadata = metadata,
                          !.m_isStatic = TRUE,
                          !.m_loader = NullLoader]

\* ModuleLoader::wrapExisting
wrapExisting(pluginObject, metadata) ==
    IF pluginObject = NullObj
    THEN [DefaultHandle EXCEPT !.m_errorString = "Null plugin object"]
    ELSE [DefaultHandle EXCEPT !.m_instance = pluginObject,
                               !.m_metadata = metadata,
                               !.m_isStatic = TRUE,
                               !.m_loader = NullLoader]

\* the first loader id `new QPluginLoader` has not handed out yet
nextLoader ==
    IF \E l \in Loaders : loaders[l].state = "unborn"
    THEN CHOOSE l \in Loaders :
            /\ loaders[l].state = "unborn"
            /\ \A k \in Loaders : loaders[k].state = "unborn" => l <= k
    ELSE NullLoader

\* load() whose failure path forgets `delete handle.m_loader;
\* handle.m_loader = nullptr;`
load_keepsFailedLoader(pluginPath, l, L) ==
    LET bin == Binary(pluginPath)
        rawMetadata == bin.metaData
        metadata == fromJson(rawMetadata)
        m == IF ~isEmpty(rawMetadata) /\ metadata.some
             THEN metadata.v ELSE DefaultMetadata
        created == [L EXCEPT ![l] = [FreshLoader EXCEPT !.state = "live",
                                                        !.ok = bin.loads]]
    IN IF ~bin.loads
       THEN [hr |-> [DefaultHandle EXCEPT !.m_metadata = m,
                                          !.m_errorString = bin.errorString,
                                          !.m_loader = l],
             L |-> created]
       ELSE [hr |-> [DefaultHandle EXCEPT !.m_loader = l,
                                          !.m_instance = DynObj(l),
                                          !.m_metadata = m],
             L |-> created]

\* load() that reads `handle.m_loader->errorString()` before the
\* `if (!handle.m_instance)` test
load_errorOnSuccess(pluginPath, l, L) ==
    LET bin == Binary(pluginPath)
        rawMetadata == bin.metaData
        metadata == fromJson(rawMetadata)
        m == IF ~isEmpty(rawMetadata) /\ metadata.some
             THEN metadata.v ELSE DefaultMetadata
        created == [L EXCEPT ![l] = [FreshLoader EXCEPT !.state = "live",
                                                        !.ok = bin.loads]]
    IN IF ~bin.loads
       THEN [hr |-> [DefaultHandle EXCEPT !.m_metadata = m,
                                          !.m_errorString = bin.errorString,
                                          !.m_loader = NullLoader],
             L |-> deleteLoader(created, l)]
       ELSE [hr |-> [DefaultHandle EXCEPT !.m_loader = l,
                                          !.m_instance = DynObj(l),
                                          !.m_errorString = bin.errorString,
                                          !.m_metadata = m],
             L |-> created]

\* load() that reads the descriptor only after instance() has given an
\* object
load_metadataAfterInstance(pluginPath, l, L) ==
    LET bin == Binary(pluginPath)
        rawMetadata == bin.metaData
        metadata == fromJson(rawMetadata)
        m == IF ~isEmpty(rawMetadata) /\ metadata.some
             THEN metadata.v ELSE DefaultMetadata
        created == [L EXCEPT ![l] = [FreshLoader EXCEPT !.state = "live",
                                                        !.ok = bin.loads]]
    IN IF ~bin.loads
       THEN [hr |-> [DefaultHandle EXCEPT !.m_errorString = bin.errorString,
                                          !.m_loader = NullLoader],
             L |-> deleteLoader(created, l)]
       ELSE [hr |-> [DefaultHandle EXCEPT !.m_loader = l,
                                          !.m_instance = DynObj(l),
                                          !.m_metadata = m],
             L |-> created]

\* load() that treats a binary without usable metadata as a failed load
load_requiresMetadata(pluginPath, l, L) ==
    LET bin == Binary(pluginPath)
        rawMetadata == bin.metaData
        metadata == fromJson(rawMetadata)
        usable == ~isEmpty(rawMetadata) /\ metadata.some
        m == IF usable THEN metadata.v ELSE DefaultMetadata
        created == [L EXCEPT ![l] = [FreshLoader EXCEPT !.state = "live",
                                                        !.ok = bin.loads]]
    IN IF ~bin.loads \/ ~usable
       THEN [hr |-> [DefaultHandle EXCEPT !.m_metadata = m,
                                          !.m_errorString = bin.errorString,
                                          !.m_loader = NullLoader],
             L |-> deleteLoader(created, l)]
       ELSE [hr |-> [DefaultHandle EXCEPT !.m_loader = l,
                                          !.m_instance = DynObj(l),
                                          !.m_metadata = m],
             L |-> created]

\* ModuleLoader::load with `new QPluginLoader` giving loader l: the
\* returned handle and the loaders after the call
load(pluginPath, l, L) ==
    LET bin == Binary(pluginPath)
        rawMetadata == bin.metaData
        metadata == fromJson(rawMetadata)
        m == IF ~isEmpty(rawMetadata) /\ metadata.some
             THEN metadata.v ELSE DefaultMetadata
        created == [L EXCEPT ![l] = [FreshLoader EXCEPT !.state = "live",
                                                        !.ok = bin.loads]]
    IN IF ~bin.loads
       THEN [hr |-> [DefaultHandle EXCEPT !.m_metadata = m,
                                          !.m_errorString = bin.errorString,
                                          !.m_loader = NullLoader],
             L |-> deleteLoader(created, l)]
       ELSE [hr |-> [DefaultHandle EXCEPT !.m_loader = l,
                                          !.m_instance = DynObj(l),
                                          !.m_metadata = m],
             L |-> created]

RECURSIVE staticHandles_prepend(_, _)
\* getStaticModules() that inserts at the front of the vector
staticHandles_prepend(plugins, acc) ==
    IF plugins = <<>> THEN acc
    ELSE LET pluginObject == Head(plugins)
             handle == [wrapExisting(pluginObject, DefaultMetadata)
                            EXCEPT !.m_isStatic = TRUE]
         IN IF pluginObject = NullObj
            THEN staticHandles_prepend(Tail(plugins), acc)
            ELSE staticHandles_prepend(Tail(plugins),
                               IF isValid(handle)
                               THEN <<adopt(handle)>> \o acc ELSE acc)

RECURSIVE staticHandles(_, _)
\* the loop of ModuleLoader::getStaticModules over staticInstances()
staticHandles(plugins, acc) ==
    IF plugins = <<>> THEN acc
    ELSE LET pluginObject == Head(plugins)
             handle == [wrapExisting(pluginObject, DefaultMetadata)
                            EXCEPT !.m_isStatic = TRUE]
         IN IF pluginObject = NullObj
            THEN staticHandles(Tail(plugins), acc)
            ELSE staticHandles(Tail(plugins),
                               IF isValid(handle)
                               THEN Append(acc, adopt(handle)) ELSE acc)

\* ModuleLoader::getStaticModules
getStaticModules(plugins) == staticHandles(plugins, <<>>)

\* ---------------------------------------------------------------- actions
\* a new handle object takes the lowest free storage slot
CanConstruct(h) ==
    /\ life[h] # "alive"
    /\ \A g \in Handles : life[g] # "alive" => h <= g

Op(name, h) == [NoOp EXCEPT !.op = name, !.h = h]

\* history: which kind of handle unloaded the loaders that L2 has unloaded
\* since the current state
noteUnloads(h, L2) ==
    [l \in Loaders |-> IF L2[l].unloads # loaders[l].unloads
                       THEN released[h] ELSE unloadedBy[l]]

\* ModuleHandle h;
DefaultConstruct(h) ==
    /\ CanConstruct(h)
    /\ handles' = [handles EXCEPT ![h] = DefaultHandle]
    /\ life' = [life EXCEPT ![h] = "alive"]
    /\ released' = [released EXCEPT ![h] = "no"]
    /\ lastOp' = Op("construct", h)
    /\ UNCHANGED <<loaders, staticPlugins, leaked, unloadedBy, arg, ret>>

\* ModuleHandle h = ModuleLoader::loadFromPath(path);
LoadFromPath(h, path) ==
    /\ CanConstruct(h)
    /\ nextLoader # NullLoader
    /\ LET r == load(path, nextLoader, loaders)
       IN /\ handles' = [handles EXCEPT ![h] = r.hr]
          /\ loaders' = r.L
    /\ life' = [life EXCEPT ![h] = "alive"]
    /\ released' = [released EXCEPT ![h] = "no"]
    /\ lastOp' = [Op("load", h) EXCEPT !.path = path]
    /\ UNCHANGED <<staticPlugins, leaked, unloadedBy, arg, ret>>

\* objects a caller can pass to wrapExisting: nullptr, an object of its
\* own, or the instance() of a handle it holds
CallerObjects ==
    {NullObj, ExtObj} \cup {handles[g].m_instance : g \in {x \in Handles : life[x] = "alive"}}

\* ModuleHandle h = ModuleLoader::wrapExisting(obj, metadata);
WrapExisting(h, obj, metadata) ==
    /\ CanConstruct(h)
    /\ handles' = [handles EXCEPT ![h] = wrapExisting(obj, metadata)]
    /\ life' = [life EXCEPT ![h] = "alive"]
    /\ released' = [released EXCEPT ![h] = "no"]
    /\ lastOp' = [Op("wrapExisting", h) EXCEPT !.obj = obj,
                                              !.metadata = metadata]
    /\ UNCHANGED <<loaders, staticPlugins, leaked, unloadedBy, arg, ret>>

FreeSlots == {h \in Handles : life[h] # "alive"}

RECURSIVE firstSlots(_, _)
\* the n lowest slots of S, in increasing order
firstSlots(S, n) ==
    IF n = 0 \/ S = {} THEN <<>>
    ELSE LET lo == CHOOSE x \in S : \A y \in S : x <= y
         IN <<lo>> \o firstSlots(S \ {lo}, n - 1)

\* std::vector<ModuleHandle> v = ModuleLoader::getStaticModules();
\* the elements of the vector take the lowest free slots, in order
GetStaticModules ==
    LET result == getStaticModules(staticPlugins)
        slots == firstSlots(FreeSlots, Len(result))
        at(h) == CHOOSE i \in 1..Len(slots) : slots[i] = h
        taken == {slots[i] : i \in 1..Len(slots)}
    IN /\ Cardinality(FreeSlots) >= Len(result)
       /\ handles' = [h \in Handles |->
                        IF h \in taken THEN result[at(h)] ELSE handles[h]]
       /\ life' = [h \in Handles |-> IF h \in taken THEN "alive" ELSE life[h]]
       /\ released' = [h \in Handles |-> IF h \in taken THEN "no" ELSE released[h]]
       /\ lastOp' = Op("getStaticModules", 0)
       /\ UNCHANGED <<loaders, staticPlugins, leaked, unloadedBy, arg, ret>>

\* ModuleHandle dst(std::move(src));
MoveConstruct(dst, src) ==
    /\ CanConstruct(dst)
    /\ life[src] = "alive"
    /\ dst # src
    /\ handles' = [handles EXCEPT ![dst] = adopt(handles[src]),
                                  ![src] = movedFrom(handles[src], DefaultMetadata, "")]
    /\ life' = [life EXCEPT ![dst] = "alive"]
    /\ released' = [released EXCEPT ![dst] = "no"]
    /\ lastOp' = [Op("moveConstruct", dst) EXCEPT !.src = src]
    /\ UNCHANGED <<loaders, staticPlugins, leaked, unloadedBy, arg, ret>>

\* dst = std::move(src);
\* Moving a QString, QStringList or QJsonObject onto an existing one leaves
\* the source either empty or holding the destination's old value (Qt
\* implements move assignment by swap for some of them); `swapped` picks.
MoveAssign(dst, src, swapped) ==
    /\ life[dst] = "alive"
    /\ life[src] = "alive"
    /\ IF dst = src
       THEN UNCHANGED <<handles, loaders, released, unloadedBy>>
       ELSE LET u == unload(handles[dst], loaders)
                other == handles[src]
            IN /\ handles' = [handles EXCEPT
                    ![dst] = adopt(other),
                    ![src] = IF swapped
                             THEN movedFrom(other, u.hr.m_metadata,
                                            u.hr.m_errorString)
                             ELSE movedFrom(other, DefaultMetadata, "")]
               /\ loaders' = u.L
               /\ unloadedBy' = noteUnloads(dst, u.L)
               /\ released' = [released EXCEPT ![dst] =
                                 IF @ = "no" THEN "no" ELSE "reassigned"]
    /\ lastOp' = [Op("moveAssign", dst) EXCEPT !.src = src]
    /\ UNCHANGED <<life, staticPlugins, leaked, arg, ret>>

\* h.unload();
Unload(h) ==
    /\ life[h] = "alive"
    /\ LET u == unload(handles[h], loaders)
       IN /\ handles' = [handles EXCEPT ![h] = u.hr]
          /\ loaders' = u.L
          /\ unloadedBy' = noteUnloads(h, u.L)
    /\ lastOp' = Op("unload", h)
    /\ UNCHANGED <<life, staticPlugins, released, leaked, arg, ret>>

\* QObject* p = h.release();
Release(h) ==
    /\ life[h] = "alive"
    /\ LET r == release(handles[h])
       IN /\ handles' = [handles EXCEPT ![h] = r.hr]
          /\ lastOp' = Op("release", h)
          /\ leaked' = IF handles[h].m_loader # NullLoader
                       THEN leaked \cup {[loader |-> handles[h].m_loader,
                                          instance |-> r.ret]}
                       ELSE leaked
    /\ released' = [released EXCEPT ![h] = "released"]
    /\ UNCHANGED <<life, loaders, staticPlugins, unloadedBy, arg, ret>>

\* ModuleHandle::~ModuleHandle: h goes out of scope
Destroy(h) ==
    /\ life[h] = "alive"
    /\ LET u == unload(handles[h], loaders)
       IN /\ handles' = [handles EXCEPT ![h] = DefaultHandle]
          /\ loaders' = u.L
          /\ unloadedBy' = noteUnloads(h, u.L)
    /\ lastOp' = Op("destroy", h)
    /\ life' = [life EXCEPT ![h] = "none"]
    /\ released' = [released EXCEPT ![h] = "no"]
    /\ UNCHANGED <<staticPlugins, leaked, arg, ret>>

Next ==
    \/ \E h \in Handles : DefaultConstruct(h)
    \/ \E h \in Handles, path \in Paths : LoadFromPath(h, path)
    \/ \E h \in Handles, obj \in CallerObjects, metadata \in CallerMetadata :
          WrapExisting(h, obj, metadata)
    \/ GetStaticModules
    \/ \E dst \in Handles, src \in Handles : MoveConstruct(dst, src)
    \/ \E dst \in Handles, src \in Handles, swapped \in BOOLEAN :
          MoveAssign(dst, src, swapped)
    \/ \E h \in Handles : Unload(h)
    \/ \E h \in Handles : Release(h)
    \/ \E h \in Handles : Destroy(h)

Spec == Init /\ [][Next]_vars

\* Loading every kind of plugin file: the lifecycle restricted to the
\* handles loadFromPath returns, over all the files of AllPaths.
FilesNext ==
    \/ \E h \in Handles, path \in AllPaths : LoadFromPath(h, path)
    \/ \E dst \in Handles, src \in Handles : MoveConstruct(dst, src)
    \/ \E h \in Handles : Unload(h)
    \/ \E h \in Handles : Destroy(h)

SpecFiles == Init /\ [][FilesNext]_vars

\* ------------------------------------------------------ metadata parsing
\* The static functions of ModuleMetadata applied to a descriptor.
InitMeta ==
    /\ handles = [h \in Handles |-> DefaultHandle]
    /\ life = [h \in Handles |-> "none"]
    /\ loaders = [l \in Loaders |-> FreshLoader]
    /\ staticPlugins = StaticTable
    /\ released = [h \in Handles |-> "no"]
    /\ leaked = {}
    /\ unloadedBy = [l \in Loaders |-> ""]
    /\ lastOp = NoOp
    /\ arg \in {[f |-> "descriptor", json |-> d] : d \in Descriptors}
    /\ ret = NoCall

lifecycle == <<handles, life, loaders, staticPlugins, released, leaked,
               unloadedBy, lastOp>>

\* the MetaData section of the descriptor at hand
section == toObject(topValue(arg.json, "MetaData"))

\* ModuleMetadata::fromCustomMetadata(section)
FromCustomMetadata ==
    /\ topValue(arg.json, "MetaData").k = "obj"
    /\ ret' = [f |-> "fromCustomMetadata", path |-> "",
               v |-> fromCustomMetadata(section)]
    /\ UNCHANGED <<lifecycle, arg>>

\* ModuleMetadata::fromJson(descriptor)
FromJson ==
    /\ ret' = [f |-> "fromJson", path |-> "", v |-> fromJson(arg.json)]
    /\ UNCHANGED <<lifecycle, arg>>

\* ModuleMetadata::fromPath(path)
FromPath(path) ==
    /\ ret' = [f |-> "fromPath", path |-> path, v |-> fromPath(path)]
    /\ UNCHANGED <<lifecycle, arg>>

MetaNext ==
    \/ FromCustomMetadata
    \/ FromJson
    \/ \E path \in AllPaths : FromPath(path)

SpecMeta == InitMeta /\ [][MetaNext]_vars

\* ----------------------------------------------------------- introspection
\* The static functions of ModuleIntrospection applied to an object.
InitIntro ==
    /\ handles = [h \in Handles |-> DefaultHandle]
    /\ life = [h \in Handles |-> "none"]
    /\ loaders = [l \in Loaders |-> FreshLoader]
    /\ staticPlugins = StaticTable
    /\ released = [h \in Handles |-> "no"]
    /\ leaked = {}
    /\ unloadedBy = [l \in Loaders |-> ""]
    /\ lastOp = NoOp
    /\ arg \in {[f |-> "plugin", plugin |-> o, excludeBaseClass |-> b,
                  methodName |-> n] :
                    o \in Plugins \cup {NullObj}, b \in BOOLEAN, n \in MethodNames}
    /\ ret = NoCall

\* ModuleIntrospection::getMethods(plugin, excludeBaseClass)
GetMethods ==
    /\ ret' = [f |-> "getMethods", path |-> "",
               v |-> getMethods(arg.plugin, arg.excludeBaseClass)]
    /\ UNCHANGED <<lifecycle, arg>>

\* ModuleIntrospection::getMethodsAsJson(plugin, excludeBaseClass)
GetMethodsAsJson ==
    /\ ret' = [f |-> "getMethodsAsJson", path |-> "",
               v |-> getMethodsAsJson(arg.plugin, arg.excludeBaseClass)]
    /\ UNCHANGED <<lifecycle, arg>>

\* ModuleIntrospection::getClassName(plugin)
GetClassName ==
    /\ ret' = [f |-> "getClassName", path |-> "", v |-> getClassName(arg.plugin)]
    /\ UNCHANGED <<lifecycle, arg>>

\* ModuleIntrospection::hasMethod(plugin, methodName)
HasMethod ==
    /\ ret' = [f |-> "hasMethod", path |-> "",
               v |-> hasMethod(arg.plugin, arg.methodName)]
    /\ UNCHANGED <<lifecycle, arg>>

IntroNext ==
    \/ GetMethods
    \/ GetMethodsAsJson
    \/ GetClassName
    \/ HasMethod

SpecIntro == InitIntro /\ [][IntroNext]_vars

\* Enumerating static plugins: a process with any of the registration
\* tables, and the lifecycle of the handles getStaticModules returns.
InitStatic ==
    /\ handles = [h \in Handles |-> DefaultHandle]
    /\ life = [h \in Handles |-> "none"]
    /\ loaders = [l \in Loaders |-> FreshLoader]
    /\ staticPlugins \in StaticTables
    /\ released = [h \in Handles |-> "no"]
    /\ leaked = {}
    /\ unloadedBy = [l \in Loaders |-> ""]
    /\ lastOp = NoOp
    /\ arg = NoCall
    /\ ret = NoCall

StaticNext ==
    \/ GetStaticModules
    \/ \E dst \in Handles, src \in Handles : MoveConstruct(dst, src)
    \/ \E h \in Handles : Unload(h)
    \/ \E h \in Handles : Destroy(h)

SpecStatic == InitStatic /\ [][StaticNext]_vars

\* ------------------------------------------------------- the lm command
\* QFileInfo(pluginPath).exists()
exists(pluginPath) == pluginPath # "missing.so"

\* cmdMetadata that fails when the plugin has no valid metadata
cmdMetadata_requiresMetadata(pluginPath, jsonOutput, l, L) ==
    IF ~exists(pluginPath)
    THEN [exit |-> 1, err |-> "Error: Plugin file not found: " \o pluginPath,
          out |-> <<>>, L |-> L]
    ELSE LET r == load(pluginPath, l, L)
             handle == r.hr
             errorString == IF ~isValid(handle) THEN handle.m_errorString ELSE ""
             destroyed == unload(handle, r.L).L
         IN IF ~isValid(handle) \/ ~metadataIsValid(handle.m_metadata)
            THEN [exit |-> 1,
                  err |-> "Error: Failed to load plugin: " \o errorString,
                  out |-> <<>>, L |-> destroyed]
            ELSE [exit |-> 0, err |-> "",
                  out |-> <<"metadata", jsonOutput, handle.m_metadata>>,
                  L |-> destroyed]

\* cmdMetadata with `new QPluginLoader` giving loader l: the exit code,
\* the text on stderr, what is printed on stdout and the loaders after
\* the local handle has been destroyed
cmdMetadata(pluginPath, jsonOutput, l, L) ==
    IF ~exists(pluginPath)
    THEN [exit |-> 1, err |-> "Error: Plugin file not found: " \o pluginPath,
          out |-> <<>>, L |-> L]
    ELSE LET r == load(pluginPath, l, L)
             handle == r.hr
             errorString == IF ~isValid(handle) THEN handle.m_errorString ELSE ""
             destroyed == unload(handle, r.L).L
         IN IF ~isValid(handle)
            THEN [exit |-> 1,
                  err |-> "Error: Failed to load plugin: " \o errorString,
                  out |-> <<>>, L |-> destroyed]
            ELSE [exit |-> 0, err |-> "",
                  out |-> <<"metadata", jsonOutput, handle.m_metadata>>,
                  L |-> destroyed]

\* cmdMethods; the methods printed are those of handle.instance()
cmdMethods(pluginPath, jsonOutput, l, L) ==
    IF ~exists(pluginPath)
    THEN [exit |-> 1, err |-> "Error: Plugin file not found: " \o pluginPath,
          out |-> <<>>, L |-> L]
    ELSE LET r == load(pluginPath, l, L)
             handle == r.hr
             errorString == IF ~isValid(handle) THEN handle.m_errorString ELSE ""
             destroyed == unload(handle, r.L).L
         IN IF ~isValid(handle)
            THEN [exit |-> 1,
                  err |-> "Error: Failed to load plugin: " \o errorString,
                  out |-> <<>>, L |-> destroyed]
            ELSE IF handle.m_instance = NullObj
            THEN [exit |-> 1,
                  err |-> "Error: Plugin loaded but instance is null",
                  out |-> <<>>, L |-> destroyed]
            ELSE [exit |-> 0, err |-> "",
                  out |-> <<"methods", jsonOutput, handle.m_instance>>,
                  L |-> destroyed]

\* lm metadata <path> [--json]
CmdMetadata(pluginPath, jsonOutput) ==
    /\ exists(pluginPath) => nextLoader # NullLoader
    /\ LET r == cmdMetadata(pluginPath, jsonOutput, nextLoader, loaders)
       IN /\ ret' = [f |-> "cmdMetadata", path |-> pluginPath,
                     v |-> [exit |-> r.exit, err |-> r.err, out |-> r.out]]
          /\ loaders' = r.L
    /\ arg' = [f |-> "lm", command |-> "metadata", pluginPath |-> pluginPath,
               jsonOutput |-> jsonOutput]
    /\ UNCHANGED <<handles, life, staticPlugins, released, leaked, unloadedBy,
                   lastOp>>

\* lm methods <path> [--json]
CmdMethods(pluginPath, jsonOutput) ==
    /\ exists(pluginPath) => nextLoader # NullLoader
    /\ LET r == cmdMethods(pluginPath, jsonOutput, nextLoader, loaders)
       IN /\ ret' = [f |-> "cmdMethods", path |-> pluginPath,
                     v |-> [exit |-> r.exit, err |-> r.err, out |-> r.out]]
          /\ loaders' = r.L
    /\ arg' = [f |-> "lm", command |-> "methods", pluginPath |-> pluginPath,
               jsonOutput |-> jsonOutput]
    /\ UNCHANGED <<handles, life, staticPlugins, released, leaked, unloadedBy,
                   lastOp>>

\* successive runs of the command; arg is the command line of the last
\* run and loaders records every QPluginLoader the runs have created
CliNext ==
    \/ \E pluginPath \in AllPaths, jsonOutput \in BOOLEAN :
          CmdMetadata(pluginPath, jsonOutput)
    \/ \E pluginPath \in AllPaths, jsonOutput \in BOOLEAN :
          CmdMethods(pluginPath, jsonOutput)

SpecCli == Init /\ [][CliNext]_vars

\* ------------------------------------------------------------ properties
Alive == {h \in Handles : life[h] = "alive"}
Moves == {"moveConstruct", "moveAssign"}

\* C2: a library resource acquired by a successful load is unloaded and
\* deleted exactly once by the time no handle is left, unless its owner
\* called release(), and then it is never unloaded or deleted; no loader is
\* ever unloaded or deleted twice.
C2_UnloadedExactlyOnce ==
    /\ \A l \in Loaders : loaders[l].unloads <= 1 /\ loaders[l].deletes <= 1
    /\ \A r \in leaked :
          loaders[r.loader].unloads = 0 /\ loaders[r.loader].deletes = 0
    /\ Alive = {} =>
          \A l \in Loaders :
             (loaders[l].ok /\ ~\E r \in leaked : r.loader = l) =>
                loaders[l].unloads = 1 /\ loaders[l].deletes = 1

\* every handle is gone; one loaded resource was unloaded, another released
C2_Witness ==
    /\ Alive = {}
    /\ \E l \in Loaders : loaders[l].ok /\ loaders[l].unloads = 1
    /\ \E r \in leaked : loaders[r.loader].ok

\* C3: a loader is referenced by at most one handle, and after a move the
\* source references none.
C3_SingleOwner ==
    /\ \A h1 \in Handles, h2 \in Handles :
          (h1 # h2 /\ handles[h1].m_loader # NullLoader) =>
             handles[h1].m_loader # handles[h2].m_loader
    /\ (lastOp.op \in Moves /\ lastOp.src # lastOp.h) =>
          handles[lastOp.src].m_loader = NullLoader

\* a handle that owns a loader has just been moved into another handle
C3_Witness ==
    /\ lastOp.op \in Moves
    /\ lastOp.src # lastOp.h
    /\ handles[lastOp.h].m_loader # NullLoader

\* the loader the last `new QPluginLoader` produced
lastCreated ==
    CHOOSE l \in Loaders :
        /\ loaders[l].state # "unborn"
        /\ \A k \in Loaders : k > l => loaders[k].state = "unborn"

\* C4: loadFromPath returns a handle, and when instantiation fails that
\* handle is invalid, carries the loader's diagnostic text and owns no
\* loader, the loader of the attempt being deleted already (and never
\* unloaded).
C4_FailedLoad ==
    lastOp.op = "load" =>
       /\ life[lastOp.h] = "alive"
       /\ ~Binary(lastOp.path).loads =>
             /\ ~isValid(handles[lastOp.h])
             /\ handles[lastOp.h].m_instance = NullObj
             /\ handles[lastOp.h].m_errorString = Binary(lastOp.path).errorString
             /\ handles[lastOp.h].m_loader = NullLoader
             /\ loaders[lastCreated].state = "deleted"
             /\ loaders[lastCreated].deletes = 1
             /\ loaders[lastCreated].unloads = 0
             /\ \A h \in Handles : handles[h].m_loader # lastCreated

\* a load of a plugin that cannot be instantiated has just returned
C4_Witness ==
    /\ lastOp.op = "load"
    /\ ~Binary(lastOp.path).loads
    /\ handles[lastOp.h].m_errorString # ""

\* C5: right after unload() the handle is invalid and a further unload()
\* changes neither the handle nor any loader.
C5_UnloadIdempotent ==
    lastOp.op = "unload" =>
       /\ ~isValid(handles[lastOp.h])
       /\ unload(handles[lastOp.h], loaders).hr = handles[lastOp.h]
       /\ unload(handles[lastOp.h], loaders).L = loaders

\* unload() has run on a handle while a loaded resource was unloaded
C5_Witness ==
    /\ lastOp.op = "unload"
    /\ handles[lastOp.h].m_metadata.name = "package_manager"
    /\ handles[lastOp.h].m_errorString = ""
    /\ \E l \in Loaders : loaders[l].unloads = 1

\* the step is h.unload() on a handle whose static flag is set
StaticUnloadStep(h) ==
    /\ lastOp'.op = "unload"
    /\ lastOp'.h = h
    /\ life[h] = "alive"
    /\ handles[h].m_isStatic

\* C6 as claimed: unload() on a static handle changes nothing, neither
\* the handle (instance, validity, metadata, static flag) nor any loader.
C6_StaticUnloadNoOp ==
    [][\A h \in Handles :
          StaticUnloadStep(h) =>
             /\ handles'[h].m_instance = handles[h].m_instance
             /\ isValid(handles'[h]) = isValid(handles[h])
             /\ handles'[h].m_metadata = handles[h].m_metadata
             /\ handles'[h].m_isStatic = handles[h].m_isStatic
             /\ loaders' = loaders]_vars

\* C6 amended: unload() on a static handle unloads and deletes no loader
\* and keeps the handle's metadata, error string and static flag, but
\* clears its instance reference, so the handle is invalid afterwards.
C6_StaticUnloadKeepsResources ==
    [][\A h \in Handles :
          StaticUnloadStep(h) =>
             /\ loaders' = loaders
             /\ handles'[h].m_metadata = handles[h].m_metadata
             /\ handles'[h].m_errorString = handles[h].m_errorString
             /\ handles'[h].m_isStatic = handles[h].m_isStatic
             /\ handles'[h].m_instance = NullObj
             /\ ~isValid(handles'[h])
             /\ \A g \in Handles \ {h} : handles'[g] = handles[g]]_vars

\* unload() has run on a wrapped handle
C6_Witness ==
    /\ lastOp.op = "unload"
    /\ handles[lastOp.h].m_isStatic
    /\ handles[lastOp.h].m_metadata.name = "wrapped"
    /\ released[lastOp.h] = "no"

\* C7: release() returns the instance the handle held and leaves the
\* handle inert (no loader, no instance, static flag set); the loader of a
\* released instance stays loaded: nothing unloads or deletes it.
C7_ReleaseKeepsResource ==
    /\ \A r \in leaked :
          /\ r.instance = DynObj(r.loader)
          /\ loaders[r.loader].state = "live"
          /\ loaders[r.loader].unloads = 0
          /\ loaders[r.loader].deletes = 0
          /\ \A h \in Handles : handles[h].m_loader # r.loader
    /\ lastOp.op = "release" =>
          /\ handles[lastOp.h].m_loader = NullLoader
          /\ handles[lastOp.h].m_instance = NullObj
          /\ handles[lastOp.h].m_isStatic

\* a loaded handle was released and has since been destroyed
C7_Witness ==
    /\ leaked # {}
    /\ lastOp.op = "destroy"
    /\ Alive = {}

\* C8 as claimed: a handle on which release() was called never unloads a
\* loader afterwards, whatever is done with it.
C8_ReleasedNeverUnloads ==
    \A l \in Loaders : unloadedBy[l] \in {"", "no"}

\* C8 amended: a handle on which release() was called unloads no loader for
\* as long as it has not been the destination of a move-assignment; after
\* one it owns what the source owned and unloads that like any handle.
C8_ReleasedUnloadsOnlyAdopted ==
    /\ \A l \in Loaders : unloadedBy[l] \in {"", "no", "reassigned"}
    /\ \A h \in Handles :
          released[h] = "released" => handles[h].m_loader = NullLoader

\* a released handle took over a loaded handle by move-assignment and has
\* unloaded the loader it took over
C8_Witness ==
    \E l \in Loaders : unloadedBy[l] = "reassigned" /\ leaked # {}

\* C9: the source of a move is an empty handle afterwards: invalid, no
\* loader, not static, and unloading or destroying it unloads nothing.
C9_MovedFromEmpty ==
    (lastOp.op \in Moves /\ lastOp.src # lastOp.h) =>
       /\ ~isValid(handles[lastOp.src])
       /\ handles[lastOp.src].m_loader = NullLoader
       /\ ~handles[lastOp.src].m_isStatic
       /\ unload(handles[lastOp.src], loaders).L = loaders

\* a valid static handle has just been move-assigned into another handle
C9_Witness ==
    /\ lastOp.op = "moveAssign"
    /\ lastOp.src # lastOp.h
    /\ isValid(handles[lastOp.h])
    /\ handles[lastOp.h].m_isStatic

\* C10: a handle whose static flag is set holds no loader, so unloading or
\* destroying it leaves every loader as it is.
C10_StaticOwnsNothing ==
    \A h \in Handles :
       handles[h].m_isStatic =>
          /\ handles[h].m_loader = NullLoader
          /\ unload(handles[h], loaders).L = loaders

\* static handles of all three origins at once cannot fit two slots; a
\* released handle next to a wrapped one while a loader is live
C10_Witness ==
    /\ \E h \in Alive : handles[h].m_isStatic /\ released[h] = "released"
    /\ \E h \in Alive : handles[h].m_isStatic /\ isValid(handles[h])
    /\ \E l \in Loaders : loaders[l].state = "live"

\* C11: a handle with a non-empty error string is invalid, so a valid
\* handle, wherever moves have carried it, has an empty one; the handle a
\* successful loadFromPath or a successful wrapExisting returns has an empty
\* error string; every non-empty error string is the text of a failed
\* creation (the loader's diagnostic, or wrapExisting's for a null object).
C11_ErrorOnlyOnFailure ==
    /\ \A h \in Handles :
          /\ handles[h].m_errorString # "" => ~isValid(handles[h])
          /\ handles[h].m_errorString \in
                {"", "Null plugin object"} \cup
                {Binary(p).errorString : p \in {q \in Paths : ~Binary(q).loads}}
    /\ (lastOp.op = "load" /\ Binary(lastOp.path).loads) =>
          handles[lastOp.h].m_errorString = ""
    /\ (lastOp.op = "wrapExisting" /\ lastOp.obj # NullObj) =>
          handles[lastOp.h].m_errorString = ""

\* a loaded handle has just been move-assigned onto a handle of a failed
\* load: the destination is valid, the source holds the old error string
C11_Witness ==
    /\ lastOp.op = "moveAssign"
    /\ lastOp.src # lastOp.h
    /\ isValid(handles[lastOp.h])
    /\ handles[lastOp.h].m_loader # NullLoader
    /\ handles[lastOp.src].m_errorString = "Cannot load library"

\* C13: wrapExisting fails only for a null object: it then returns an
\* invalid handle with a non-empty error string; for every other object it
\* returns a valid static handle holding that object and the supplied
\* metadata, with no loader and no error string, and touches no loader.
C13_WrapExisting ==
    lastOp.op = "wrapExisting" =>
       LET hr == handles[lastOp.h]
       IN /\ life[lastOp.h] = "alive"
          /\ isValid(hr) <=> lastOp.obj # NullObj
          /\ lastOp.obj = NullObj =>
                /\ hr.m_errorString # ""
                /\ hr.m_loader = NullLoader
          /\ lastOp.obj # NullObj =>
                /\ hr.m_isStatic
                /\ hr.m_instance = lastOp.obj
                /\ hr.m_metadata = lastOp.metadata
                /\ hr.m_loader = NullLoader
                /\ hr.m_errorString = ""
                /\ unload(hr, loaders).L = loaders

\* an object of the caller has just been wrapped next to a handle that a
\* wrapExisting of a null object returned
C13_Witness ==
    /\ lastOp.op = "wrapExisting"
    /\ lastOp.obj = ExtObj
    /\ handles[lastOp.h].m_metadata.name = "wrapped"
    /\ \E g \in Alive \ {lastOp.h} :
          handles[g].m_errorString = "Null plugin object"

\* the descriptor of a binary is usable: it has a MetaData section that is
\* a non-empty object whose name is a non-empty string
UsableDescriptor(metaData) ==
    /\ "MetaData" \in DOMAIN metaData
    /\ metaData["MetaData"].k = "obj"
    /\ "name" \in DOMAIN metaData["MetaData"].o
    /\ metaData["MetaData"].o["name"].k = "str"
    /\ metaData["MetaData"].o["name"].s # ""

\* C12: the handle loadFromPath returns is valid exactly when the binary
\* instantiates, whatever its descriptor; its metadata is the record parsed
\* from the MetaData section when the descriptor is usable, and the default
\* record (empty name, invalid) otherwise.
C12_MetadataBestEffort ==
    lastOp.op = "load" =>
       LET hr == handles[lastOp.h]
           bin == Binary(lastOp.path)
       IN /\ isValid(hr) <=> bin.loads
          /\ bin.loads => hr.m_errorString = ""
          /\ UsableDescriptor(bin.metaData) =>
                /\ hr.m_metadata = fromCustomMetadata(bin.metaData["MetaData"].o)
                /\ metadataIsValid(hr.m_metadata)
          /\ ~UsableDescriptor(bin.metaData) =>
                /\ hr.m_metadata = DefaultMetadata
                /\ ~metadataIsValid(hr.m_metadata)

\* a plugin without a name has just been loaded next to a handle of the
\* plugin with the full descriptor: both valid, one without metadata
C12_Witness ==
    /\ lastOp.op = "load"
    /\ lastOp.path \in {"noname.so", "emptyname.so", "empty.so", "plain.so"}
    /\ isValid(handles[lastOp.h])
    /\ handles[lastOp.h].m_metadata = DefaultMetadata
    /\ \E g \in Alive \ {lastOp.h} :
          /\ isValid(handles[g])
          /\ handles[g].m_metadata.name = "package_manager"
          /\ handles[g].m_metadata.dependencies = <<"a", "b">>

IsObject(o) == o # NullObj

\* C14: getStaticModules returns one handle for each non-null entry of the
\* registration table, in the order of the table; each is valid, static,
\* holds that entry and no loader; nothing else changes.
C14_StaticModules ==
    [][lastOp'.op = "getStaticModules" =>
          LET registered == SelectSeq(staticPlugins, IsObject)
              slots == firstSlots(FreeSlots, Len(registered))
              taken == {slots[i] : i \in 1..Len(slots)}
          IN /\ Len(slots) = Len(registered)
             /\ \A i \in 1..Len(registered) :
                   /\ life'[slots[i]] = "alive"
                   /\ handles'[slots[i]].m_instance = registered[i]
                   /\ isValid(handles'[slots[i]])
                   /\ handles'[slots[i]].m_isStatic
                   /\ handles'[slots[i]].m_loader = NullLoader
                   /\ handles'[slots[i]].m_errorString = ""
             /\ \A h \in Handles \ taken :
                   handles'[h] = handles[h] /\ life'[h] = life[h]
             /\ loaders' = loaders]_vars

\* a table of two objects with a null entry between them has just been
\* enumerated into two handles
C14_Witness ==
    /\ lastOp.op = "getStaticModules"
    /\ staticPlugins = <<StaticObj(2), NullObj, StaticObj(1)>>
    /\ Alive = {1, 2}
    /\ handles[1].m_instance = StaticObj(2)
    /\ handles[2].m_instance = StaticObj(1)

\* the name of a MetaData section is absent or an empty string
LacksName(customMetadata) ==
    \/ "name" \notin DOMAIN customMetadata
    \/ customMetadata["name"] = JStr("")

\* the same for a raw descriptor, one without a MetaData object having no
\* name at all
DescriptorLacksName(json) ==
    \/ "MetaData" \notin DOMAIN json
    \/ json["MetaData"].k # "obj"
    \/ LacksName(json["MetaData"].o)

\* C15: for a descriptor whose name is absent or an empty string,
\* fromCustomMetadata yields a record that is not valid, and fromJson and
\* fromPath yield nothing; so none of them yields a valid record.
C15_NoNameNoRecord ==
    /\ (ret.f = "fromCustomMetadata" /\ LacksName(arg.json["MetaData"].o)) =>
          ~metadataIsValid(ret.v)
    /\ (ret.f = "fromJson" /\ DescriptorLacksName(arg.json)) =>
          ~ret.v.some
    /\ (ret.f = "fromPath" /\ DescriptorLacksName(Binary(ret.path).metaData)) =>
          ~ret.v.some

\* fromJson has returned nothing for a section with a version and
\* dependencies whose name is an empty string
C15_Witness ==
    /\ ret.f = "fromJson"
    /\ "MetaData" \in DOMAIN arg.json
    /\ arg.json["MetaData"].k = "obj"
    /\ {"name", "version", "dependencies"} \subseteq DOMAIN arg.json["MetaData"].o
    /\ arg.json["MetaData"].o["name"] = JStr("")
    /\ arg.json["MetaData"].o["version"] = JStr("1.0.0")
    /\ ~ret.v.some

\* C16: fromJson returns a record exactly when the descriptor has, under
\* MetaData, a non-empty object whose name is a non-empty string, whatever
\* the other fields; the record is then fromCustomMetadata of that object.
C16_FromJson ==
    ret.f = "fromJson" =>
       /\ ret.v.some <=> UsableDescriptor(arg.json)
       /\ ret.v.some =>
             /\ ret.v.v = fromCustomMetadata(arg.json["MetaData"].o)
             /\ metadataIsValid(ret.v.v)
       /\ ~ret.v.some => ret.v = Nothing

\* fromJson has returned a record for a section that has a name and
\* nothing else
C16_Witness ==
    /\ ret.f = "fromJson"
    /\ ret.v.some
    /\ DOMAIN arg.json["MetaData"].o = {"name"}
    /\ ret.v.v.name = "test_plugin"
    /\ ret.v.v.version = ""
    /\ ret.v.v.dependencies = <<>>

\* C17: rawMetadata of the record fromCustomMetadata returns has exactly
\* the keys of the input object, each with the value it had there.
C17_RawFieldsVerbatim ==
    ret.f = "fromCustomMetadata" =>
       LET input == arg.json["MetaData"].o
       IN /\ DOMAIN ret.v.rawMetadata = DOMAIN input
          /\ \A key \in DOMAIN input : ret.v.rawMetadata[key] = input[key]

\* fromCustomMetadata has parsed an object with typed keys, a number under
\* a typed key and a number under an unknown key
C17_Witness ==
    /\ ret.f = "fromCustomMetadata"
    /\ DOMAIN arg.json["MetaData"].o =
          {"name", "version", "dependencies", "customField"}
    /\ arg.json["MetaData"].o["version"] = JNum
    /\ ret.v.version = ""
    /\ ret.v.rawMetadata["version"] = JNum
    /\ ret.v.rawMetadata["customField"] = JNum
    /\ ret.v.rawMetadata["dependencies"] = JArr(<<JStr("a"), JStr("")>>)

\* QJsonValue::toString of every entry of an array
texts(depsArray) ==
    [i \in 1..Len(depsArray) |->
        IF depsArray[i].k = "str" THEN depsArray[i].s ELSE ""]

NonEmptyText(t) == t # ""

\* C18: the dependencies of the record are the entries of the input array
\* whose text (QJsonValue::toString, empty for an entry that is no string)
\* is not empty, in the order of the array and with repetitions kept; no
\* array, or an empty one, gives an empty list.
C18_Dependencies ==
    /\ appendDeps(<<JStr("a"), JStr(""), JStr("b")>>, <<>>) = <<"a", "b">>
    /\ ret.f = "fromCustomMetadata" =>
          LET input == arg.json["MetaData"].o
          IN ret.v.dependencies =
                IF "dependencies" \in DOMAIN input /\ input["dependencies"].k = "arr"
                THEN SelectSeq(texts(input["dependencies"].a), NonEmptyText)
                ELSE <<>>

\* fromCustomMetadata has parsed an array with a repeated name around an
\* empty string
C18_Witness ==
    /\ ret.f = "fromCustomMetadata"
    /\ "dependencies" \in DOMAIN arg.json["MetaData"].o
    /\ arg.json["MetaData"].o["dependencies"] = JArr(<<JStr("b"), JStr(""), JStr("b")>>)
    /\ ret.v.dependencies = <<"b", "b">>

\* C19: on a null instance getMethods returns the empty sequence,
\* getMethodsAsJson the empty array, hasMethod false for every name and
\* getClassName the empty string, with either value of excludeBaseClass.
C19_NullInstance ==
    arg.plugin = NullObj =>
       /\ ret.f = "getMethods" => ret.v = <<>>
       /\ ret.f = "getMethodsAsJson" => ret.v = <<>>
       /\ ret.f = "hasMethod" => ret.v = FALSE
       /\ ret.f = "getClassName" => ret.v = ""

\* getClassName has been asked of a null pointer
C19_Witness ==
    /\ arg.f = "plugin"
    /\ arg.plugin = NullObj
    /\ ~arg.excludeBaseClass
    /\ arg.methodName = "deleteLater"
    /\ ret.f = "getClassName"

\* the entries of methods at the indices where the method table of mo has
\* a method declared by mo itself
RECURSIVE declaredOnly(_, _, _)
declaredOnly(mo, methods, i) ==
    IF i > Len(methods) THEN <<>>
    ELSE (IF methodTable(mo)[i].enclosingMetaObject = mo
          THEN <<methods[i]>> ELSE <<>>) \o declaredOnly(mo, methods, i + 1)

\* C20: getMethods(obj, true) is the subsequence of getMethods(obj, false)
\* at the positions of the methods the class of obj itself declares,
\* whatever they are named; getMethods(obj, false) has one entry for each
\* method of the meta-object.
C20_FilterOnDeclaringType ==
    (ret.f = "getMethods" /\ arg.plugin # NullObj) =>
       LET mo == metaObject(arg.plugin)
           full == getMethods(arg.plugin, FALSE)
       IN /\ Len(full) = methodCount(mo)
          /\ ~arg.excludeBaseClass => ret.v = full
          /\ arg.excludeBaseClass =>
                /\ ret.v = declaredOnly(mo, full, 1)
                /\ Len(ret.v) = Len(mo[Len(mo)].methods)

\* the filtered enumeration of a plugin that derives from the plugin base
\* class and declares a method named like one of QObject
C20_Witness ==
    /\ ret.f = "getMethods"
    /\ arg.plugin # NullObj
    /\ arg.excludeBaseClass
    /\ Len(metaObject(arg.plugin)) = 3
    /\ Len(ret.v) = 2
    /\ ret.v[1].name = "deleteLater"
    /\ ret.v[2].name = "changed"
    /\ ret.v[2].parameters = <<[type |-> "QString", name |-> "param0"]>>

\* the names of the entries of an enumeration
namesOf(methods) == {methods[i].name : i \in 1..Len(methods)}

\* the names of the methods a base class of the object declares: those
\* excludeBaseClass leaves out
excludedNames(mo) ==
    {methodTable(mo)[i].m.name :
        i \in {j \in 1..methodCount(mo) :
                  methodTable(mo)[j].enclosingMetaObject # mo}}

\* the names of the methods the class of the object itself declares
declaredNames(mo) ==
    {mo[Len(mo)].methods[i].name : i \in 1..Len(mo[Len(mo)].methods)}

\* C21 as claimed: the filtered enumeration is strictly shorter than the
\* full one, and no name of an excluded base-class method appears in it,
\* while every such name appears in the full enumeration.
C21_ExcludedNamesAbsent ==
    (ret.f = "getMethods" /\ arg.plugin # NullObj /\ arg.excludeBaseClass) =>
       LET mo == metaObject(arg.plugin)
           full == getMethods(arg.plugin, FALSE)
       IN /\ Len(ret.v) < Len(full)
          /\ \A n \in excludedNames(mo) :
                n \notin namesOf(ret.v) /\ n \in namesOf(full)

\* C21 amended: the filtered enumeration is strictly shorter than the full
\* one and every name of an excluded base-class method appears in the full
\* one; such a name appears in the filtered one exactly when the class of
\* the object declares a method of that name itself.
C21_ExcludedNamesUnlessDeclared ==
    (ret.f = "getMethods" /\ arg.plugin # NullObj /\ arg.excludeBaseClass) =>
       LET mo == metaObject(arg.plugin)
           full == getMethods(arg.plugin, FALSE)
       IN /\ Len(ret.v) < Len(full)
          /\ excludedNames(mo) # {}
          /\ \A n \in excludedNames(mo) :
                /\ n \in namesOf(full)
                /\ n \in namesOf(ret.v) <=> n \in declaredNames(mo)

\* the filtered enumeration of a plugin deriving from QObject directly
\* whose only method is named like QObject's deleteLater
C21_Witness ==
    /\ ret.f = "getMethods"
    /\ arg.plugin # NullObj
    /\ arg.excludeBaseClass
    /\ Len(metaObject(arg.plugin)) = 2
    /\ Len(ret.v) = 1
    /\ ret.v[1].name = "deleteLater"
    /\ ret.v[1].signature = "deleteLater(int)"
    /\ "deleteLater" \in excludedNames(metaObject(arg.plugin))

\* the QMetaMethods behind the entries of getMethods(plugin,
\* excludeBaseClass), in order
reported(plugin, excludeBaseClass) ==
    LET mo == metaObject(plugin)
        all == [i \in 1..methodCount(mo) |-> methodTable(mo)[i].m]
    IN IF excludeBaseClass THEN declaredOnly(mo, all, 1) ELSE all

\* the call at hand enumerated the methods of an object
Enumerated ==
    /\ ret.f \in {"getMethods", "getMethodsAsJson"}
    /\ arg.plugin # NullObj

\* C22 as claimed: every enumerated method without a return value has the
\* empty string as returnType, in getMethods and in getMethodsAsJson, and
\* never the word "void".
C22_VoidIsEmpty ==
    Enumerated =>
       LET ms == reported(arg.plugin, arg.excludeBaseClass)
       IN \A i \in 1..Len(ms) :
             ms[i].typeName = "void" =>
                IF ret.f = "getMethods"
                THEN ret.v[i].returnType = ""
                ELSE ret.v[i]["returnType"] = JStr("")

\* C22 amended: returnType is the return type name the meta-object system
\* reports, unchanged, in getMethods and in getMethodsAsJson; for a method
\* without a return value that is the word "void".
C22_ReturnTypeVerbatim ==
    Enumerated =>
       LET ms == reported(arg.plugin, arg.excludeBaseClass)
       IN /\ Len(ret.v) = Len(ms)
          /\ \A i \in 1..Len(ms) :
                /\ ret.f = "getMethods" => ret.v[i].returnType = ms[i].typeName
                /\ ret.f = "getMethodsAsJson" =>
                      ret.v[i]["returnType"] = JStr(ms[i].typeName)
                /\ ms[i].methodSignature = "noReturnMethod()" =>
                      ms[i].typeName = "void"

\* the JSON enumeration of a plugin with noReturnMethod() and
\* testMethod(int): "void" and "QString"
C22_Witness ==
    /\ ret.f = "getMethodsAsJson"
    /\ arg.plugin # NullObj
    /\ arg.excludeBaseClass
    /\ Len(ret.v) = 2
    /\ ret.v[1]["name"] = JStr("noReturnMethod")
    /\ ret.v[1]["returnType"] = JStr("void")
    /\ ret.v[2]["returnType"] = JStr("QString")

\* C23: isInvokable of an enumerated method is true exactly when the
\* meta-object system reports it as an ordinary method or a slot, and false
\* for every other kind, such as a signal.
C23_Invokable ==
    (ret.f = "getMethods" /\ arg.plugin # NullObj) =>
       LET ms == reported(arg.plugin, arg.excludeBaseClass)
       IN /\ Len(ret.v) = Len(ms)
          /\ \A i \in 1..Len(ms) :
                /\ ret.v[i].isInvokable <=> ms[i].methodType \in {"Method", "Slot"}
                /\ ms[i].methodType \in {"Signal", "Constructor"} =>
                      ~ret.v[i].isInvokable

\* the full enumeration of a plugin that declares a slot and a signal
C23_Witness ==
    /\ ret.f = "getMethods"
    /\ arg.plugin # NullObj
    /\ ~arg.excludeBaseClass
    /\ Len(ret.v) = 4
    /\ ret.v[1].name = "destroyed" /\ ~ret.v[1].isInvokable
    /\ ret.v[2].name = "deleteLater" /\ ret.v[2].isInvokable
    /\ ret.v[3].name = "slotMethod" /\ ret.v[3].isInvokable
    /\ ret.v[4].name = "changed" /\ ~ret.v[4].isInvokable

\* C24: parameters of an enumerated method has one entry for each
\* parameter the meta-object system reports, in order; entry i (from 0) has
\* the reported type name, and the reported name when that is not empty,
\* else "param" followed by i.
C24_Parameters ==
    (ret.f = "getMethods" /\ arg.plugin # NullObj) =>
       LET ms == reported(arg.plugin, arg.excludeBaseClass)
       IN \A i \in 1..Len(ms) :
             /\ Len(ret.v[i].parameters) = Len(ms[i].parameterTypes)
             /\ \A p \in 0..(Len(ms[i].parameterTypes) - 1) :
                   /\ ret.v[i].parameters[p + 1].type = ms[i].parameterTypes[p + 1]
                   /\ ret.v[i].parameters[p + 1].name =
                         IF ms[i].parameterNames[p + 1] # ""
                         THEN ms[i].parameterNames[p + 1]
                         ELSE "param" \o <<"0", "1", "2">>[p + 1]

\* the enumeration of a plugin whose method has a named, an unnamed and a
\* named parameter
C24_Witness ==
    /\ ret.f = "getMethods"
    /\ arg.plugin # NullObj
    /\ arg.excludeBaseClass
    /\ Len(ret.v) = 1
    /\ ret.v[1].name = "methodWithMultipleParams"
    /\ ret.v[1].parameters =
          <<[type |-> "QString", name |-> "name"],
            [type |-> "int", name |-> "param1"],
            [type |-> "bool", name |-> "flag"]>>

\* C25: getMethodsAsJson has one object for each entry of getMethods with
\* the same arguments, in order, with name, signature, returnType and
\* isInvokable; it has the key parameters exactly when the method has a
\* parameter, and then one {name, type} object for each of them.
C25_JsonShape ==
    (ret.f = "getMethodsAsJson" /\ arg.plugin # NullObj) =>
       LET methods == getMethods(arg.plugin, arg.excludeBaseClass)
       IN /\ Len(ret.v) = Len(methods)
          /\ \A i \in 1..Len(methods) :
                /\ ret.v[i]["name"] = JStr(methods[i].name)
                /\ ret.v[i]["signature"] = JStr(methods[i].signature)
                /\ ret.v[i]["returnType"] = JStr(methods[i].returnType)
                /\ ret.v[i]["isInvokable"] = JBool(methods[i].isInvokable)
                /\ "parameters" \in DOMAIN ret.v[i] <=> Len(methods[i].parameters) >= 1
                /\ DOMAIN ret.v[i] \subseteq
                      {"name", "signature", "returnType", "isInvokable", "parameters"}
                /\ "parameters" \in DOMAIN ret.v[i] =>
                      /\ ret.v[i]["parameters"].k = "arr"
                      /\ Len(ret.v[i]["parameters"].a) = Len(methods[i].parameters)
                      /\ \A p \in 1..Len(methods[i].parameters) :
                            /\ DOMAIN ret.v[i]["parameters"].a[p] = {"name", "type"}
                            /\ ret.v[i]["parameters"].a[p]["name"] =
                                  JStr(methods[i].parameters[p].name)
                            /\ ret.v[i]["parameters"].a[p]["type"] =
                                  JStr(methods[i].parameters[p].type)

\* the JSON enumeration of a plugin with a method of one parameter and a
\* slot of none
C25_Witness ==
    /\ ret.f = "getMethodsAsJson"
    /\ arg.plugin # NullObj
    /\ arg.excludeBaseClass
    /\ Len(ret.v) = 2
    /\ ret.v[1]["name"] = JStr("testMethod")
    /\ "parameters" \in DOMAIN ret.v[1]
    /\ ret.v[2]["name"] = JStr("slotMethod")
    /\ "parameters" \notin DOMAIN ret.v[2]

\* C26: hasMethod(obj, name) is true exactly when a method of the
\* meta-object of obj, inherited ones included, has that name; it is false
\* for the empty name.
C26_HasMethod ==
    (ret.f = "hasMethod" /\ arg.plugin # NullObj) =>
       LET mo == metaObject(arg.plugin)
       IN /\ ret.v <=> \E i \in 1..methodCount(mo) :
                          methodTable(mo)[i].m.name = arg.methodName
          /\ ret.v <=> arg.methodName \in namesOf(getMethods(arg.plugin, FALSE))
          /\ arg.methodName = "" => ~ret.v

\* hasMethod has found QObject's deleteLater on a plugin that declares
\* only testMethod
C26_Witness ==
    /\ ret.f = "hasMethod"
    /\ arg.plugin # NullObj
    /\ arg.methodName = "deleteLater"
    /\ namesOf(getMethods(arg.plugin, TRUE)) = {"testMethod"}
    /\ ret.v = TRUE

\* C27: a run of `lm metadata` or `lm methods` exits with 1 and a
\* "not found" error, creating no loader, when the file does not exist;
\* exits with 1 and the loader's error text when the file exists and
\* loadFromPath returns an invalid handle; and exits with 0 otherwise,
\* whether or not the plugin has usable metadata.
C27_ExitCodes ==
    [][ret'.f \in {"cmdMetadata", "cmdMethods"} =>
         LET pluginPath == ret'.path
             bin == Binary(pluginPath)
         IN /\ ~exists(pluginPath) =>
                  /\ ret'.v.exit = 1
                  /\ ret'.v.err = "Error: Plugin file not found: " \o pluginPath
                  /\ loaders' = loaders
            /\ (exists(pluginPath) /\ ~bin.loads) =>
                  /\ ret'.v.exit = 1
                  /\ ret'.v.err =
                        "Error: Failed to load plugin: " \o bin.errorString
            /\ (exists(pluginPath) /\ bin.loads) =>
                  /\ ret'.v.exit = 0
                  /\ ret'.v.err = ""
            /\ ret'.v.exit \in {0, 1}]_vars

\* `lm metadata` has exited with 0 on a plugin whose descriptor has no
\* name, after a run on a missing file and before any other load
C27_Witness ==
    /\ ret.f = "cmdMetadata"
    /\ ret.path = "noname.so"
    /\ ret.v.exit = 0
    /\ ~metadataIsValid(ret.v.out[3])
    /\ loaders[1].state = "deleted" /\ loaders[1].unloads = 1
    /\ loaders[2].state = "unborn"

\* C28: a move assignment onto a different handle that owns a loader
\* unloads and deletes that loader exactly once, touches no other loader,
\* and then the destination holds the source's loader, instance, metadata,
\* error string and static flag; a move assignment of a handle onto itself
\* changes no handle and no loader.
C28_MoveAssign ==
    [][(lastOp'.op = "moveAssign" /\ life[lastOp'.h] = "alive"
          /\ life[lastOp'.src] = "alive") =>
         LET dst == lastOp'.h
             src == lastOp'.src
             old == handles[dst]
         IN IF dst = src
            THEN handles' = handles /\ loaders' = loaders
            ELSE /\ handles'[dst].m_loader = handles[src].m_loader
                 /\ handles'[dst].m_instance = handles[src].m_instance
                 /\ handles'[dst].m_metadata = handles[src].m_metadata
                 /\ handles'[dst].m_errorString = handles[src].m_errorString
                 /\ handles'[dst].m_isStatic = handles[src].m_isStatic
                 /\ \A l \in Loaders :
                       IF l = old.m_loader /\ ~old.m_isStatic
                       THEN /\ loaders[l].state = "live"
                            /\ loaders[l].unloads = 0 /\ loaders[l].deletes = 0
                            /\ loaders'[l].state = "deleted"
                            /\ loaders'[l].unloads = 1 /\ loaders'[l].deletes = 1
                       ELSE loaders'[l] = loaders[l]]_vars

\* a handle that owned loader 1 has been assigned the handle that owns
\* loader 2
C28_Witness ==
    /\ lastOp.op = "moveAssign"
    /\ lastOp.h # lastOp.src
    /\ handles[lastOp.h].m_loader = 2
    /\ handles[lastOp.h].m_instance = DynObj(2)
    /\ handles[lastOp.h].m_metadata.name = "package_manager"
    /\ handles[lastOp.src].m_loader = NullLoader
    /\ loaders[1].state = "deleted" /\ loaders[1].unloads = 1 /\ loaders[1].deletes = 1
    /\ loaders[2].state = "live" /\ loaders[2].unloads = 0

\* C29: every living handle that reports isValid() holds an instance
\* whose library is still loaded: if the instance came from a loader, that
\* loader is alive and has not been unloaded.
C29_ValidInstanceLoaded ==
    \A h \in Handles :
       (life[h] = "alive" /\ isValid(handles[h])) =>
          \A l \in Loaders :
             handles[h].m_instance = DynObj(l) =>
                loaders[l].state = "live" /\ loaders[l].unloads = 0

\* a handle made by wrapExisting from another handle's instance() is still
\* valid after that handle has unloaded the library
C29_Dangling ==
    \E h \in Handles, g \in Handles :
       /\ h # g
       /\ lastOp.op = "unload" /\ lastOp.h = g
       /\ life[h] = "alive" /\ isValid(handles[h])
       /\ handles[h].m_isStatic /\ handles[h].m_loader = NullLoader
       /\ handles[h].m_instance = DynObj(1)
       /\ loaders[1].state = "deleted" /\ loaders[1].unloads = 1
       /\ ~isValid(handles[g])

\* C30: a handle returned by loadFromPath for a file whose descriptor is
\* valid but whose instantiation fails is invalid, has the loader's error
\* string, and carries the valid metadata parsed from the descriptor; and
\* unload() leaves the metadata of its handle as it was.
C30_MetadataSurvivesFailure ==
    [][/\ lastOp'.op = "load" =>
            LET hr == handles'[lastOp'.h]
                bin == Binary(lastOp'.path)
            IN (UsableDescriptor(bin.metaData) /\ ~bin.loads) =>
                  /\ ~isValid(hr)
                  /\ hr.m_errorString = bin.errorString
                  /\ hr.m_errorString # ""
                  /\ metadataIsValid(hr.m_metadata)
                  /\ hr.m_metadata = fromJson(bin.metaData).v
       /\ lastOp'.op = "unload" =>
            handles'[lastOp'.h].m_metadata = handles[lastOp'.h].m_metadata]_vars

\* the handle of a failed load of broken.so has been unloaded and still
\* has the metadata of the descriptor
C30_Witness ==
    /\ lastOp.op = "unload"
    /\ ~isValid(handles[lastOp.h])
    /\ handles[lastOp.h].m_errorString = "Cannot load library"
    /\ metadataIsValid(handles[lastOp.h].m_metadata)
    /\ handles[lastOp.h].m_metadata.name = "package_manager"
    /\ handles[lastOp.h].m_metadata.dependencies = <<"a", "b">>

=============================================================================
